---- MODULE Spec2Model ----
(***************************************************************************)
(* A model of the dosr acoustic modem (src/src/dosr.rs): the Dosr          *)
(* configuration and its builders, the encoder (bit packer, frequency      *)
(* plan, tone synthesizer) and the decoder (FFT peak detector, inverse     *)
(* frequency plan, byte regrouping, AEAD envelope).                        *)
(*                                                                         *)
(* Units.  Frequencies are integers in milli-Hertz (1875.0 Hz = 1875000),  *)
(* sample rates in Hertz, durations in milliseconds.  Every f32 product    *)
(* the code forms from the values used here is exact in these units.       *)
(*                                                                         *)
(* Signals.  A RawFrame (Vec<f32>) is kept in the form encode_frame builds *)
(* it: its number of samples and the list of the sine waves summed into    *)
(* it, [n |-> samples, tones |-> <<frequency, ...>>], each of amplitude    *)
(* Amplitude.  A silent frame has no tones.                                *)
(***************************************************************************)
EXTENDS Integers, Sequences, FiniteSets, TLC

VARIABLES
    pc,               \* position of the caller: start, built, encoded, received, decoded, called
    overflow_checks,  \* the build profile: TRUE = debug (arithmetic overflow panics), FALSE = release (wraps)
    dosr,             \* the Dosr instance (struct fields), or NoDosr
    data,             \* the bytes handed to encode_data
    enc_cipher,       \* the cipher handed to encode_data: a key, or None
    enc,              \* how encode_data ended
    calls,            \* the calculate_frequency calls encode_data made: <<value, chunk_index>>, in order
    samples,          \* the signal: what encode_data returned / what decode is given
    dec_cipher,       \* the cipher handed to decode
    result,           \* how decode (or the unit called) ended
    call,             \* the unit called on its own, with its arguments
    enc_nonce,        \* the nonce OsRng gave encode_data (empty without a cipher)
    twin              \* a second modem of equal configuration: the nonce and the end of its encode_data

vars == <<pc, overflow_checks, dosr, data, enc_cipher, enc, calls, samples, dec_cipher, result, call, enc_nonce, twin>>

-----------------------------------------------------------------------------
(* Bounds of the model *)

\* longest payload handed to encode_data, in bytes
MaxLen == 3
\* longest plaintext handed to encode_data together with a cipher
MaxAeadLen == 1
\* reach of a tone's leakage in the transform, in bins
KernelSpan == 8
\* longest vector of magnitudes handed to the peak detector on its own
MaxBins == 4
\* longest sequence of symbols handed to the regrouping on its own
MaxSymbols == 3

-----------------------------------------------------------------------------
(* Program constants *)

\* const F0: f32 = 1875.0, in mHz
F0 == 1875000
\* const DF: f32 = 46.875, in mHz
DF == 46875
\* amplitude of each tone, encode_frame: generate_sine_wave(f, 0.5), in 1/1000
Amplitude == 500
\* peak threshold of detect_frequencies: mag > 0.4, in 1/1000
Threshold == 400
\* payload.iter().take(12) / skip(12): the nonce length in bytes
NonceLen == 12
\* Aes128GcmSiv: the authentication tag appended to the ciphertext, in bytes
TagLen == 16
\* u8
U8 == 256

\* Option<Aes128GcmSiv>: None, or Some(key) with the key named by a number
None == <<>>
Some(key) == <<key>>
NoDosr == "NoDosr"
\* 0.0 / 0.0 in normalize_fft: every comparison with it is false
NaN == -1

-----------------------------------------------------------------------------
(* Small helpers *)

Min(a, b) == IF a < b THEN a ELSE b
Max(a, b) == IF a > b THEN a ELSE b

RECURSIVE Pow2(_)
Pow2(n) == IF n = 0 THEN 1 ELSE 2 * Pow2(n - 1)

RECURSIVE Concat(_)
\* flat_map / concat of a sequence of sequences
Concat(ss) == IF ss = <<>> THEN <<>> ELSE Head(ss) \o Concat(Tail(ss))

\* slice::chunks(size) and itertools chunks(size): consecutive groups of
\* `size` elements, the last one shorter when the length is no multiple
RECURSIVE Chunks(_, _)
Chunks(s, size) ==
    IF s = <<>> THEN <<>>
    ELSE IF Len(s) <= size THEN <<s>>
    ELSE <<SubSeq(s, 1, size)>> \o Chunks(SubSeq(s, size + 1, Len(s)), size)

\* how a call ends: it returns val (Ok), it returns an error value (Err), or
\* it panics (the thread unwinds: nothing is returned)
Ok(v) == [ok |-> TRUE, val |-> v, err |-> "", panic |-> ""]
Err(e) == [ok |-> FALSE, val |-> <<>>, err |-> e, panic |-> ""]
Panic(msg) == [ok |-> FALSE, val |-> <<>>, err |-> "", panic |-> msg]

-----------------------------------------------------------------------------
(* Construction: Default, Dosr::new and the with_* builders *)

\* impl Default for Dosr
DefaultDosr ==
    [base_freq |-> F0, delta_freq |-> DF, chunks_per_frame |-> 6,
     bits_per_chunk |-> 4, values_per_chunk |-> 16,
     duration_ms |-> 100, sample_rate |-> 44100]

\* a Dosr::new that derives values_per_chunk as 2 * bits_per_chunk
NewDosr_TwiceBits(base_freq, delta_freq, bits_per_chunk, chunks_per_frame, duration_ms, sample_rate) ==
    [base_freq |-> base_freq, delta_freq |-> delta_freq,
     chunks_per_frame |-> chunks_per_frame,
     bits_per_chunk |-> bits_per_chunk,
     values_per_chunk |-> 2 * bits_per_chunk,
     duration_ms |-> duration_ms, sample_rate |-> sample_rate]

\* Dosr::new: stores its arguments, derives values_per_chunk, checks nothing
NewDosr(base_freq, delta_freq, bits_per_chunk, chunks_per_frame, duration_ms, sample_rate) ==
    [base_freq |-> base_freq, delta_freq |-> delta_freq,
     chunks_per_frame |-> chunks_per_frame,
     bits_per_chunk |-> bits_per_chunk,
     values_per_chunk |-> Pow2(bits_per_chunk),
     duration_ms |-> duration_ms, sample_rate |-> sample_rate]

\* (self.duration_s * self.sample_rate) as usize
SamplesPerFrame(d) == (d.sample_rate * d.duration_ms) \div 1000

-----------------------------------------------------------------------------
(* The AEAD collaborator (aes_gcm_siv::Aes128GcmSiv), by its contract:      *)
(* encrypt returns ciphertext (as long as the plaintext) followed by a     *)
(* TagLen-byte tag bound to key, nonce and ciphertext; decrypt returns the *)
(* plaintext when the tag matches and Err otherwise.                       *)

RECURSIVE WeightedSum(_, _)
\* sum of (2i+1) * s[i]: an odd weight per position, so changing any one byte changes the sum mod 256
WeightedSum(s, i) ==
    IF i > Len(s) THEN 0 ELSE ((2 * i + 1) * s[i] + WeightedSum(s, i + 1)) % U8

KeyStream(key, nonce, i) == (key * 37 + nonce[1] * 3 + i * 7 + 1) % U8

AeadTag(key, nonce, ct) ==
    LET k == (key * 37 + 11) % U8
        n == WeightedSum(nonce, 1)
        c == WeightedSum(ct, 1)
    IN  [j \in 1..TagLen |->
            CASE j = 1 -> k
              [] j = 2 -> n
              [] j = 3 -> c
              [] j = 4 -> Len(ct) % U8
              [] OTHER -> (k + n + c + j) % U8]

\* cipher.encrypt(&nonce, data): ciphertext || tag
AeadEncrypt(key, nonce, pt) ==
    LET ct == [i \in 1..Len(pt) |-> (pt[i] + KeyStream(key, nonce, i)) % U8]
    IN  ct \o AeadTag(key, nonce, ct)

\* cipher.decrypt(nonce, encrypted): Ok(plaintext) or Err(aead::Error)
AeadDecrypt(key, nonce, encrypted) ==
    IF Len(encrypted) < TagLen THEN Err("aead::Error")
    ELSE LET ct  == SubSeq(encrypted, 1, Len(encrypted) - TagLen)
             tag == SubSeq(encrypted, Len(encrypted) - TagLen + 1, Len(encrypted))
         IN  IF tag = AeadTag(key, nonce, ct)
             THEN Ok([i \in 1..Len(ct) |-> (ct[i] - KeyStream(key, nonce, i)) % U8])
             ELSE Err("aead::Error")

-----------------------------------------------------------------------------
(* Encoding *)

\* u8 addition a + b: panics on overflow when the build checks overflow, wraps otherwise
AddU8(a, b) ==
    IF a + b < U8 THEN Ok(a + b)
    ELSE IF overflow_checks THEN Panic("attempt to add with overflow")
    ELSE Ok((a + b) % U8)

\* calculate_frequency without the offset of the chunk's band: every chunk
\* on the tones of chunk 0
calculate_frequency_NoChunkOffset(d, value, chunk_index) ==
    IF ~(value < d.values_per_chunk % U8) THEN Panic("Value exceeds maximum")
    ELSE IF ~(chunk_index < d.chunks_per_frame) THEN Panic("Chunk index out of bounds")
    ELSE Ok(d.base_freq + value * d.delta_freq)

\* Dosr::calculate_frequency: the two assertions, the first against
\* values_per_chunk as u8, then base + (data + (vpc * chunk_index) as u8) * delta
calculate_frequency(d, value, chunk_index) ==
    IF ~(value < d.values_per_chunk % U8) THEN Panic("Value exceeds maximum")
    ELSE IF ~(chunk_index < d.chunks_per_frame) THEN Panic("Chunk index out of bounds")
    ELSE LET n == AddU8(value, (d.values_per_chunk * chunk_index) % U8)
         IN  IF ~n.ok THEN n
             ELSE Ok(d.base_freq + n.val * d.delta_freq)

\* data.view_bits::<Msb0>(): the bits of the bytes, most significant first
view_bits(bytes) ==
    [k \in 1..(8 * Len(bytes)) |->
        (bytes[((k - 1) \div 8) + 1] \div Pow2(7 - ((k - 1) % 8))) % 2]

RECURSIVE FoldBits(_, _)
\* c.iter().fold(0u8, |acc, bit| (acc << 1) | bit)
FoldBits(acc, bits) ==
    IF bits = <<>> THEN acc
    ELSE FoldBits(((acc * 2) % U8) + Head(bits), Tail(bits))

\* Dosr::bytes_to_chunks
bytes_to_chunks(d, bytes) ==
    LET groups == Chunks(view_bits(bytes), d.bits_per_chunk)
    IN  [i \in 1..Len(groups) |-> FoldBits(0, groups[i])]

\* Dosr::chunks_to_frames
chunks_to_frames(d, chunks) == Chunks(chunks, d.chunks_per_frame)

\* the calls encode_frame makes for a frame: calculate_frequency(v, chunk_idx),
\* chunk_idx from 0, up to and with the first one that panics
FrameCalls(d, frame) ==
    LET failed == {i \in 1..Len(frame) : ~calculate_frequency(d, frame[i], i - 1).ok}
        last   == IF failed = {} THEN Len(frame)
                  ELSE CHOOSE i \in failed : \A j \in failed : i <= j
    IN  [i \in 1..last |-> <<frame[i], i - 1>>]

\* an encode_frame that sums every sine wave into the frame twice
encode_frame_WaveAddedTwice(d, frame) ==
    LET freqs  == [i \in 1..Len(frame) |-> calculate_frequency(d, frame[i], i - 1)]
        failed == {i \in 1..Len(frame) : ~freqs[i].ok}
    IN  IF failed # {}
        THEN freqs[CHOOSE i \in failed : \A j \in failed : i <= j]
        ELSE Ok([n |-> SamplesPerFrame(d),
                 tones |-> [i \in 1..(2 * Len(frame)) |-> freqs[(i + 1) \div 2].val]])

\* Dosr::encode_frame: the sum of one sine wave per chunk, or the first panic
encode_frame(d, frame) ==
    LET freqs  == [i \in 1..Len(frame) |-> calculate_frequency(d, frame[i], i - 1)]
        failed == {i \in 1..Len(frame) : ~freqs[i].ok}
    IN  IF failed # {}
        THEN freqs[CHOOSE i \in failed : \A j \in failed : i <= j]
        ELSE Ok([n |-> SamplesPerFrame(d),
                 tones |-> [i \in 1..Len(frame) |-> freqs[i].val]])

\* the payload encode_data modulates: nonce || ciphertext || tag, or the data
EncodePayload(bytes, cipher, nonce) ==
    IF cipher # None THEN nonce \o AeadEncrypt(cipher[1], nonce, bytes) ELSE bytes

\* Dosr::encode_data: the raw frames in order, or the first panic.
encode_data(d, bytes, cipher, nonce) ==
    LET frames == chunks_to_frames(d, bytes_to_chunks(d, EncodePayload(bytes, cipher, nonce)))
        raw    == [i \in 1..Len(frames) |-> encode_frame(d, frames[i])]
        failed == {i \in 1..Len(frames) : ~raw[i].ok}
    IN  IF failed # {}
        THEN raw[CHOOSE i \in failed : \A j \in failed : i <= j]
        ELSE Ok([i \in 1..Len(frames) |-> raw[i].val])

\* the calculate_frequency calls of encode_data, frame by frame, up to and
\* with the first one that panics
EncodeCalls(d, bytes, cipher, nonce) ==
    LET frames == chunks_to_frames(d, bytes_to_chunks(d, EncodePayload(bytes, cipher, nonce)))
        failed == {i \in 1..Len(frames) : ~encode_frame(d, frames[i]).ok}
        last   == IF failed = {} THEN Len(frames)
                  ELSE CHOOSE i \in failed : \A j \in failed : i <= j
    IN  Concat([i \in 1..last |-> FrameCalls(d, frames[i])])

\* the largest magnitude a sample of a frame can have, in 1/1000: every
\* sample of a wave of generate_sine_wave(f, 0.5) is amplitude * sin(..),
\* at most 0.5 in magnitude, and samples[i] += w[i] sums one wave per tone
FramePeak(frame) == Amplitude * Len(frame.tones)

\* number of f32 samples of a signal
SampleCount(signal) ==
    LET RECURSIVE Sum(_)
        Sum(i) == IF i > Len(signal) THEN 0 ELSE signal[i].n + Sum(i + 1)
    IN  Sum(1)

-----------------------------------------------------------------------------
(* The FFT collaborator (rustfft), by what a DFT of a sum of sine waves is: *)
(* a sine wave of frequency f in a frame of n samples puts into bin i the  *)
(* magnitude of the Dirichlet kernel at distance i - f/bin_width, which is *)
(* |sin(pi x) / (pi x)| of the distance x in bins.  Positions are kept in  *)
(* sixteenths of a bin; magnitudes in 1/1000 of that of a sine wave of     *)
(* amplitude 0.5 at the centre of a bin.  Leakage further than KernelSpan  *)
(* bins from a tone (below 1/(pi KernelSpan) of its peak) is taken as 0.   *)
(*                                                                         *)
(* A vector of magnitudes (Vec<f32>, bins 0 .. len-1) is kept as           *)
(* [len, mag, rest]: mag[i] for the bins i listed in DOMAIN mag, and the   *)
(* one value `rest` (0, or NaN) for every other bin.                       *)

\* 1000 * sin(pi * j / 16), j = 0..8
SinPi16 == <<0, 195, 383, 556, 707, 831, 924, 981, 1000>>

\* 1000 * |sin(pi * dist / 16)|
AbsSin16(dist) == LET j == dist % 16 IN SinPi16[(IF j > 8 THEN 16 - j ELSE j) + 1]

\* 1000 * |sin(pi x) / (pi x)| at x = dist/16 bins; 3142 = 1000 * pi
Kernel(dist) ==
    IF dist = 0 THEN 1000
    ELSE IF dist > 16 * KernelSpan THEN 0
    ELSE (AbsSin16(dist) * 16000) \div (3142 * dist)

\* sample_rate / len, in mHz
BinWidth(d, n) == (d.sample_rate * 1000) \div n

\* where a sine wave of frequency freq falls in a frame of n samples, in
\* sixteenths of a bin; a frequency above sample_rate/2 aliases to its mirror
TonePosition(d, n, freq) ==
    LET bw == BinWidth(d, n)
        p  == ((freq * 16 + bw \div 2) \div bw) % (16 * n)
    IN  IF p > 8 * n THEN 16 * n - p ELSE p

\* |fft_output[i]| of a frame: the sum of what each tone puts into bin i.
\* Two bins at the same distance from a tone (a tone half way between two
\* bins) are not equal in the transform: the leakage of the other tones and
\* of the tone's own mirror image makes one of them the larger, either one.
\* skew (-1 or 1 sixteenth of a bin) is that difference: it moves the bins
\* above a tone nearer to it or further from it.
RECURSIVE BinMagnitude(_, _, _, _)
BinMagnitude(positions, skew, i, t) ==
    IF t > Len(positions) THEN 0
    ELSE Kernel(IF 16 * i > positions[t] THEN 16 * i - positions[t] + skew
                ELSE positions[t] - 16 * i)
         + BinMagnitude(positions, skew, i, t + 1)

\* the value of bin i of a vector of magnitudes
At(v, i) == IF i \in DOMAIN v.mag THEN v.mag[i] ELSE v.rest

\* Dosr::perform_fft, then the norms of its first len/2 bins (normalize_fft,
\* lines 192-196).  The bins listed are those within reach of a tone.
perform_fft(d, frame, skew) ==
    LET positions == [t \in 1..Len(frame.tones) |-> TonePosition(d, frame.n, frame.tones[t])]
        len       == frame.n \div 2
        near      == UNION {Max(0, positions[t] \div 16 - KernelSpan - 1)
                            .. Min(len - 1, positions[t] \div 16 + KernelSpan + 2) :
                            t \in 1..Len(positions)}
    IN  [len  |-> len,
         mag  |-> [i \in near |-> BinMagnitude(positions, skew, i, 1)],
         rest |-> 0]

\* magnitudes.iter().cloned().fold(0.0f32, f32::max)
MaxMagnitude(v) ==
    LET values == {v.mag[i] : i \in DOMAIN v.mag}
                    \cup (IF Cardinality(DOMAIN v.mag) < v.len THEN {v.rest} ELSE {})
                    \cup {0}
    IN  CHOOSE m \in values : \A x \in values : m >= x

\* a division that takes 0.0 / 0.0 as 1.0
DivF32_ZeroByZeroIsOne(m, max_magnitude) ==
    IF max_magnitude = 0 THEN 1000 ELSE (m * 1000) \div max_magnitude

\* m / max_magnitude in f32, in 1/1000; 0.0 / 0.0 is NaN
DivF32(m, max_magnitude) ==
    IF max_magnitude = 0 THEN NaN ELSE (m * 1000) \div max_magnitude

\* Dosr::normalize_fft
normalize_fft(v) ==
    LET max_magnitude == MaxMagnitude(v)
    IN  [len  |-> v.len,
         mag  |-> [i \in DOMAIN v.mag |-> DivF32(v.mag[i], max_magnitude)],
         rest |-> DivF32(v.rest, max_magnitude)]

\* f32 a > b: false when either is NaN
Gt(a, b) == a # NaN /\ b # NaN /\ a > b

\* the peak test of detect_frequencies at bin i
IsPeak(v, i) ==
    /\ Gt(At(v, i), Threshold)
    /\ Gt(At(v, i), At(v, i - 1))
    /\ Gt(At(v, i), At(v, i + 1))

\* the loop of Dosr::detect_frequencies over normalized magnitudes: the bins
\* that pass the peak test, or the panic of an index out of bounds.  &&
\* evaluates left to right and stops at the first false operand, so bin 0
\* reads magnitudes[i - 1] only when it is above the threshold, and the last
\* bin reads magnitudes[i + 1] only when it is also above its left neighbour.
\* A bin that is not listed holds `rest`, which is not above the threshold.
DetectPeaks(v) ==
    LET under == v.len > 0 /\ Gt(At(v, 0), Threshold)
        over  == v.len > 1 /\ Gt(At(v, v.len - 1), Threshold)
                           /\ Gt(At(v, v.len - 1), At(v, v.len - 2))
    IN  IF under
        THEN Panic(IF overflow_checks THEN "attempt to subtract with overflow"
                   ELSE "index out of bounds")
        ELSE IF over THEN Panic("index out of bounds")
        ELSE Ok({i \in DOMAIN v.mag : 0 < i /\ i < v.len - 1 /\ IsPeak(v, i)})

RECURSIVE Ascending(_)
\* the elements of a finite set of integers in ascending order
Ascending(S) ==
    IF S = {} THEN <<>>
    ELSE LET m == CHOOSE x \in S : \A y \in S : x <= y
         IN  <<m>> \o Ascending(S \ {m})

\* the frequencies pushed for the peak bins: i as f32 * bin_width, in bin order
BinFrequencies(d, n, found) ==
    IF ~found.ok THEN found
    ELSE Ok([k \in 1..Cardinality(found.val) |-> Ascending(found.val)[k] * BinWidth(d, n)])

\* Dosr::detect_frequencies
detect_frequencies(d, frame, skew) ==
    BinFrequencies(d, frame.n, DetectPeaks(normalize_fft(perform_fft(d, frame, skew))))

\* f32::round (half away from zero) of num / den, den > 0, then `as usize`
\* (a negative value saturates to 0)
RoundAsUsize(num, den) == IF num < 0 THEN 0 ELSE (2 * num + den) \div (2 * den)

\* Dosr::decode_frequency
decode_frequency(d, freq, chunk_index) ==
    LET value == RoundAsUsize(freq - d.base_freq, d.delta_freq)
        diff  == value - d.values_per_chunk * chunk_index
    IN  IF diff < 0 /\ overflow_checks
        THEN Panic("attempt to subtract with overflow")
        ELSE Ok(diff % U8)

\* the first panic of a sequence of outcomes, or Ok of their values
Collect(outcomes) ==
    IF \E k \in 1..Len(outcomes) : ~outcomes[k].ok
    THEN outcomes[CHOOSE k \in 1..Len(outcomes) :
                      ~outcomes[k].ok /\ \A j \in 1..(k - 1) : outcomes[j].ok]
    ELSE Ok([k \in 1..Len(outcomes) |-> outcomes[k].val])

\* frequencies.iter().enumerate().map(|(idx, &freq)| self.decode_frequency(freq, idx))
DecodeFrequencies(d, freqs) ==
    IF ~freqs.ok THEN freqs
    ELSE Collect([k \in 1..Len(freqs.val) |-> decode_frequency(d, freqs.val[k], k - 1)])

\* Dosr::decode_frame
decode_frame(d, frame, skew) == DecodeFrequencies(d, detect_frequencies(d, frame, skew))

RECURSIVE BitOr(_, _)
\* a | b on unsigned integers
BitOr(a, b) ==
    IF a = 0 THEN b
    ELSE IF b = 0 THEN a
    ELSE 2 * BitOr(a \div 2, b \div 2) + (IF a % 2 = 1 \/ b % 2 = 1 THEN 1 ELSE 0)

\* u8 acc << bits: a shift by 8 or more panics when the build checks
\* overflow, and shifts by bits % 8 otherwise
ShlU8(acc, bits) ==
    IF bits >= 8
    THEN IF overflow_checks THEN Panic("attempt to shift left with overflow")
         ELSE Ok((acc * Pow2(bits % 8)) % U8)
    ELSE Ok((acc * Pow2(bits)) % U8)

RECURSIVE FoldChunks(_, _, _)
\* c.fold(0u8, |acc, x| (acc << self.bits_per_chunk) | x)
FoldChunks(d, acc, group) ==
    IF group = <<>> THEN Ok(acc)
    ELSE LET shifted == ShlU8(acc, d.bits_per_chunk)
         IN  IF ~shifted.ok THEN shifted
             ELSE FoldChunks(d, BitOr(shifted.val, Head(group)), Tail(group))

\* groups of symbols, each folded into a byte
FoldGroups(d, groups) == Collect([k \in 1..Len(groups) |-> FoldChunks(d, 0, groups[k])])

\* the regrouping of decode (lines 234-237): groups of 8 / bits_per_chunk
\* symbols, each folded into a byte
chunks_to_bytes(d, chunks) ==
    IF 8 \div d.bits_per_chunk = 0 THEN Panic("chunk size must be non-zero")
    ELSE FoldGroups(d, Chunks(chunks, 8 \div d.bits_per_chunk))

\* flat_map of the symbols of the frames, then the regrouping
FlatMapFrames(d, frames) ==
    IF ~frames.ok THEN frames ELSE chunks_to_bytes(d, Concat(frames.val))

\* the payload of decode (lines 231-237): the symbols of every frame in
\* order, regrouped into bytes; a panic of any stage ends the call
decode_payload(d, signal, skew) ==
    FlatMapFrames(d, Collect([k \in 1..Len(signal) |-> decode_frame(d, signal[k], skew)]))

\* the end of decode (lines 238-245): the payload as it is without a cipher,
\* else its first 12 bytes as the nonce and the rest decrypted and unwrapped
DecryptPayload(payload, cipher) ==
    IF ~payload.ok \/ cipher = None THEN payload
    ELSE IF Len(payload.val) < NonceLen THEN Panic("Nonce::from_slice: length mismatch")
    ELSE IF AeadDecrypt(cipher[1], SubSeq(payload.val, 1, NonceLen),
                        SubSeq(payload.val, NonceLen + 1, Len(payload.val))).ok
    THEN AeadDecrypt(cipher[1], SubSeq(payload.val, 1, NonceLen),
                     SubSeq(payload.val, NonceLen + 1, Len(payload.val)))
    ELSE Panic("unwrap on Err: aead::Error")

\* Dosr::decode: Ok(bytes), or the panic that ends the call
decode(d, signal, cipher, skew) == DecryptPayload(decode_payload(d, signal, skew), cipher)

-----------------------------------------------------------------------------
(* Inputs of the model *)

\* the bytes payloads are made of: 'A' (0x41) and 0xF0
Bytes == {65, 240}

RECURSIVE SeqsUpTo(_, _)
\* the sequences over S of length at most n
SeqsUpTo(S, n) ==
    IF n = 0 THEN {<<>>}
    ELSE LET shorter == SeqsUpTo(S, n - 1)
         IN  shorter \cup {Append(s, x) : s \in {t \in shorter : Len(t) = n - 1}, x \in S}

Payloads == SeqsUpTo(Bytes, MaxLen)
AeadPayloads == SeqsUpTo(Bytes, MaxAeadLen)

\* 16-byte keys, by name
Keys == {1, 2}

\* what OsRng may draw for the 96-bit nonce
Nonces == {[i \in 1..NonceLen |-> (b + 23 * i) % U8] : b \in {0, 167}}

\* arguments of Dosr::new and of the builders
BitsPerChunk == {1, 2, 3, 4, 8}
ChunksPerFrame == {1, 6, 17}
SampleRates == {44100, 48000}
Durations == {100}
BaseFreqs == {F0}
DeltaFreqs == {DF}

-----------------------------------------------------------------------------
(* The caller: build a modem, encode, pass the signal on, decode *)

NotCalled == [ok |-> FALSE, val |-> <<>>, err |-> "", panic |-> ""]
NoCall == [op |-> "none", value |-> 0, chunk_index |-> 0, freq |-> NotCalled,
           magnitudes |-> <<>>, decoded_at |-> 0, symbols |-> <<>>]
NoTwin == [nonce |-> <<>>, out |-> NotCalled]

Init ==
    /\ pc = "start"
    /\ overflow_checks \in BOOLEAN
    /\ dosr = NoDosr
    /\ data = <<>>
    /\ enc_cipher = None
    /\ enc = NotCalled
    /\ calls = <<>>
    /\ samples = <<>>
    /\ dec_cipher = None
    /\ result = NotCalled
    /\ call = NoCall
    /\ enc_nonce = <<>>
    /\ twin = NoTwin

\* Dosr::default()
Default ==
    /\ pc = "start"
    /\ pc' = "built"
    /\ dosr' = DefaultDosr
    /\ UNCHANGED <<overflow_checks, data, enc_cipher, enc, calls, samples, dec_cipher, result, call, enc_nonce, twin>>

\* Dosr::new(base_freq, delta_freq, bits_per_chunk, chunks_per_frame, duration_s, sample_rate)
New ==
    /\ pc = "start"
    /\ \E base_freq \in BaseFreqs, delta_freq \in DeltaFreqs,
          bits_per_chunk \in BitsPerChunk, chunks_per_frame \in ChunksPerFrame,
          duration_ms \in Durations, sample_rate \in SampleRates :
            dosr' = NewDosr(base_freq, delta_freq, bits_per_chunk, chunks_per_frame,
                            duration_ms, sample_rate)
    /\ pc' = "built"
    /\ UNCHANGED <<overflow_checks, data, enc_cipher, enc, calls, samples, dec_cipher, result, call, enc_nonce, twin>>

with_base_freq ==
    /\ pc = "built"
    /\ \E base_freq \in BaseFreqs : dosr' = [dosr EXCEPT !.base_freq = base_freq]
    /\ UNCHANGED <<pc, overflow_checks, data, enc_cipher, enc, calls, samples, dec_cipher, result, call, enc_nonce, twin>>

with_delta_freq ==
    /\ pc = "built"
    /\ \E delta_freq \in DeltaFreqs : dosr' = [dosr EXCEPT !.delta_freq = delta_freq]
    /\ UNCHANGED <<pc, overflow_checks, data, enc_cipher, enc, calls, samples, dec_cipher, result, call, enc_nonce, twin>>

with_duration_s ==
    /\ pc = "built"
    /\ \E duration_ms \in Durations : dosr' = [dosr EXCEPT !.duration_ms = duration_ms]
    /\ UNCHANGED <<pc, overflow_checks, data, enc_cipher, enc, calls, samples, dec_cipher, result, call, enc_nonce, twin>>

with_sample_rate ==
    /\ pc = "built"
    /\ \E sample_rate \in SampleRates : dosr' = [dosr EXCEPT !.sample_rate = sample_rate]
    /\ UNCHANGED <<pc, overflow_checks, data, enc_cipher, enc, calls, samples, dec_cipher, result, call, enc_nonce, twin>>

\* dosr.encode_data(bytes, &cipher); nonce is what OsRng draws when there is a cipher
EncodeData(bytes, cipher, nonce) ==
    /\ pc = "built"
    /\ LET out == encode_data(dosr, bytes, cipher, nonce)
       IN  /\ enc' = out
           /\ samples' = out.val
    /\ calls' = EncodeCalls(dosr, bytes, cipher, nonce)
    /\ data' = bytes
    /\ enc_cipher' = cipher
    /\ enc_nonce' = nonce
    /\ pc' = "encoded"
    /\ UNCHANGED <<overflow_checks, dosr, dec_cipher, result, call, twin>>

\* the caller hands decode one frame of zero samples
Silence ==
    /\ pc = "built"
    /\ samples' = <<[n |-> SamplesPerFrame(dosr), tones |-> <<>>]>>
    /\ pc' = "received"
    /\ UNCHANGED <<overflow_checks, dosr, data, enc_cipher, enc, calls, dec_cipher, result, call, enc_nonce, twin>>

\* the channel turns the tone of chunk c of frame f into that of another value
Tamper(f, c, value) ==
    /\ pc = "encoded"
    /\ enc.ok
    /\ f \in 1..Len(samples)
    /\ c \in 1..Len(samples[f].tones)
    /\ LET freq == calculate_frequency(dosr, value, c - 1)
       IN  /\ freq.ok
           /\ freq.val # samples[f].tones[c]
           /\ samples' = [samples EXCEPT ![f].tones[c] = freq.val]
    /\ pc' = "received"
    /\ UNCHANGED <<overflow_checks, dosr, data, enc_cipher, enc, calls, dec_cipher, result, call, enc_nonce, twin>>

\* dosr.decode(&samples, &cipher)
Decode(cipher, skew) ==
    /\ \/ pc = "encoded" /\ enc.ok
       \/ pc = "received"
    /\ result' = decode(dosr, samples, cipher, skew)
    /\ dec_cipher' = cipher
    /\ pc' = "decoded"
    /\ UNCHANGED <<overflow_checks, dosr, data, enc_cipher, enc, calls, samples, call, enc_nonce, twin>>

Skews == {-1, 1}

EncodePlain == \E bytes \in Payloads : EncodeData(bytes, None, <<>>)

DecodePlain == \E skew \in Skews : Decode(None, skew)

Next ==
    \/ Default
    \/ New
    \/ with_base_freq
    \/ with_delta_freq
    \/ with_duration_s
    \/ with_sample_rate
    \/ EncodePlain
    \/ Silence
    \/ DecodePlain

Spec == Init /\ [][Next]_vars

-----------------------------------------------------------------------------
(* The caller with a cipher: the modem of dosr-cli (Dosr::default() with   *)
(* its sample rate set) or a modem of 8-bit chunks, one tone per frame     *)

AeadModems == {DefaultDosr, NewDosr(F0, DF, 8, 1, 100, 44100)}

InitAead ==
    /\ pc = "built"
    /\ overflow_checks \in BOOLEAN
    /\ dosr \in AeadModems
    /\ data = <<>>
    /\ enc_cipher = None
    /\ enc = NotCalled
    /\ calls = <<>>
    /\ samples = <<>>
    /\ dec_cipher = None
    /\ result = NotCalled
    /\ call = NoCall
    /\ enc_nonce = <<>>
    /\ twin = NoTwin

EncodeAead ==
    \E bytes \in AeadPayloads, key \in Keys, nonce \in Nonces :
        EncodeData(bytes, Some(key), nonce)

\* the tone of the first chunk of the first or of the last frame is changed
TamperAead ==
    \E f \in {1, Len(samples)}, value \in {0, 9} : Tamper(f, 1, value)

DecodeAead == \E key \in Keys, skew \in Skews : Decode(Some(key), skew)

NextAead ==
    \/ with_sample_rate
    \/ EncodeAead
    \/ TamperAead
    \/ Silence
    \/ DecodeAead

SpecAead == InitAead /\ [][NextAead]_vars

-----------------------------------------------------------------------------
(* The units of the modem called on their own, on any modem that can be built *)

\* symbol values and chunk indexes handed to calculate_frequency
Values == 0..17 \cup {255}
ChunkIndexes == 0..17

\* self.decode_frequency(self.calculate_frequency(value, chunk_index), chunk_index)
FrequencyRoundTrip(d, value, chunk_index) ==
    IF ~calculate_frequency(d, value, chunk_index).ok
    THEN calculate_frequency(d, value, chunk_index)
    ELSE decode_frequency(d, calculate_frequency(d, value, chunk_index).val, chunk_index)

CallFrequency ==
    /\ pc = "built"
    /\ \E value \in Values, chunk_index \in ChunkIndexes :
        /\ call' = [NoCall EXCEPT !.op = "frequency", !.value = value,
                                  !.chunk_index = chunk_index,
                                  !.freq = calculate_frequency(dosr, value, chunk_index)]
        /\ result' = FrequencyRoundTrip(dosr, value, chunk_index)
    /\ pc' = "called"
    /\ UNCHANGED <<overflow_checks, dosr, data, enc_cipher, enc, calls, samples, dec_cipher, enc_nonce, twin>>

\* the symbols of bytes (bytes_to_chunks), regrouped into bytes as decode does
CallRegroup ==
    /\ pc = "built"
    /\ \E bytes \in Payloads :
        /\ data' = bytes
        /\ result' = chunks_to_bytes(dosr, bytes_to_chunks(dosr, bytes))
    /\ call' = [NoCall EXCEPT !.op = "regroup"]
    /\ pc' = "called"
    /\ UNCHANGED <<overflow_checks, dosr, enc_cipher, enc, calls, samples, dec_cipher, enc_nonce, twin>>

\* normalized magnitudes (in 1/1000) of the bins of a short frame: the
\* largest is 1.0
MagnitudeLevels == {0, 500, 1000}
Magnitudes ==
    {m \in SeqsUpTo(MagnitudeLevels, MaxBins) : \E i \in 1..Len(m) : m[i] = 1000}

\* a Vec<f32> of magnitudes given bin by bin (bin 0 first)
VecOf(m) == [len |-> Len(m), mag |-> [i \in 0..(Len(m) - 1) |-> m[i + 1]], rest |-> 0]

\* the loop of detect_frequencies (lines 204-212) on the normalized
\* magnitudes of a frame of 2 * Len(m) samples
CallDetect ==
    /\ pc = "built"
    /\ \E m \in Magnitudes :
        /\ call' = [NoCall EXCEPT !.op = "detect", !.magnitudes = m]
        /\ result' = BinFrequencies(dosr, 2 * Len(m), DetectPeaks(VecOf(m)))
    /\ pc' = "called"
    /\ UNCHANGED <<overflow_checks, dosr, data, enc_cipher, enc, calls, samples, dec_cipher,
                   enc_nonce, twin>>

\* tones, by value and chunk, and the positions a tone may be found at in
\* the list of detected frequencies
ToneValues == {0, 5}
ToneChunks == 0..2

\* self.decode_frequency(freq, idx) of decode_frame, for the tone of
\* (value, chunk_index) found at position idx of the detected frequencies
\* (idx differs from chunk_index when a tone was missed or a peak is spurious)
CallDecodeFrequency ==
    /\ pc = "built"
    /\ \E value \in ToneValues, chunk_index \in ToneChunks, idx \in ToneChunks :
        /\ calculate_frequency(dosr, value, chunk_index).ok
        /\ call' = [NoCall EXCEPT !.op = "decode", !.value = value,
                                  !.chunk_index = chunk_index,
                                  !.freq = calculate_frequency(dosr, value, chunk_index),
                                  !.decoded_at = idx]
        /\ result' = decode_frequency(dosr, calculate_frequency(dosr, value, chunk_index).val, idx)
    /\ pc' = "called"
    /\ UNCHANGED <<overflow_checks, dosr, data, enc_cipher, enc, calls, samples, dec_cipher,
                   enc_nonce, twin>>

\* the symbols decoded from the frames of a signal, as many as were detected
Symbols == SeqsUpTo({0, 1}, MaxSymbols)

\* the regrouping of decode (lines 234-237) on a sequence of symbols
CallGroup ==
    /\ pc = "built"
    /\ \E symbols \in Symbols :
        /\ call' = [NoCall EXCEPT !.op = "group", !.symbols = symbols]
        /\ result' = chunks_to_bytes(dosr, symbols)
    /\ pc' = "called"
    /\ UNCHANGED <<overflow_checks, dosr, data, enc_cipher, enc, calls, samples, dec_cipher,
                   enc_nonce, twin>>

NextUnit ==
    \/ Default
    \/ New
    \/ CallFrequency
    \/ CallRegroup
    \/ CallDetect
    \/ CallDecodeFrequency
    \/ CallGroup

SpecUnit == Init /\ [][NextUnit]_vars

-----------------------------------------------------------------------------
(* Two modems of equal configuration encode the same input *)

\* a second modem built by Dosr::new from the configuration of d
TwinOf(d) ==
    NewDosr(d.base_freq, d.delta_freq, d.bits_per_chunk, d.chunks_per_frame,
            d.duration_ms, d.sample_rate)

\* what OsRng may give a call of encode_data: a nonce with a cipher, nothing without
NoncesFor(cipher) == IF cipher = None THEN {<<>>} ELSE Nonces

\* the second modem's encode_data(data, &cipher), with the nonce OsRng gives it
EncodeTwin ==
    /\ pc = "encoded"
    /\ \E nonce \in NoncesFor(enc_cipher) :
        twin' = [nonce |-> nonce, out |-> encode_data(TwinOf(dosr), data, enc_cipher, nonce)]
    /\ pc' = "encoded twice"
    /\ UNCHANGED <<overflow_checks, dosr, data, enc_cipher, enc, calls, samples, dec_cipher,
                   result, call, enc_nonce>>

EncodeShort == \E bytes \in AeadPayloads : EncodeData(bytes, None, <<>>)

NextTwin ==
    \/ with_sample_rate
    \/ EncodeShort
    \/ EncodeAead
    \/ EncodeTwin

SpecTwin == InitAead /\ [][NextTwin]_vars

-----------------------------------------------------------------------------
(* What the modem's description says of a configuration and of a payload *)

\* the largest tone number of the frequency plan: v + values_per_chunk * c
TopTone(d) == d.values_per_chunk * d.chunks_per_frame - 1

\* bits_per_chunk divides 8 and every tone is strictly below sample_rate / 2
ValidConfig(d) ==
    /\ d.bits_per_chunk \in {1, 2, 4, 8}
    /\ d.chunks_per_frame >= 1
    /\ 2 * (d.base_freq + TopTone(d) * d.delta_freq) < d.sample_rate * 1000

\* 8 * |bytes| is a multiple of bits_per_chunk * chunks_per_frame
Aligned(d, bytes) == (8 * Len(bytes)) % (d.bits_per_chunk * d.chunks_per_frame) = 0

\* ceil(a / b)
CeilDiv(a, b) == (a + b - 1) \div b

\* the samples encode_data is to return for a payload of n bytes
ExpectedSamples(d, n) ==
    CeilDiv(CeilDiv(8 * n, d.bits_per_chunk), d.chunks_per_frame) * SamplesPerFrame(d)

\* decode was handed, untouched, what encode_data returned
Transmitted == pc = "decoded" /\ enc.ok /\ samples = enc.val

\* decode was handed one frame of zero samples
Silent ==
    /\ Len(samples) = 1
    /\ samples[1] = [n |-> SamplesPerFrame(dosr), tones |-> <<>>]

\* the modem of scenario S1 has encoded the byte 0x41
S1 ==
    /\ pc = "encoded"
    /\ dosr.base_freq = F0 /\ dosr.delta_freq = DF
    /\ dosr.bits_per_chunk = 4 /\ dosr.chunks_per_frame = 6
    /\ enc_cipher = None
    /\ data = <<65>>

-----------------------------------------------------------------------------
(* The claims *)

\* C1: without a cipher, for a valid configuration and a payload whose bit
\* length is a multiple of bits_per_chunk * chunks_per_frame, encode_data
\* returns a signal and decode of that signal returns exactly the payload.
C1_RoundTripNoCipher ==
    (pc \in {"encoded", "decoded"} /\ enc_cipher = None /\ enc # NotCalled
        /\ ValidConfig(dosr) /\ Aligned(dosr, data))
    => /\ enc.ok
       /\ Transmitted /\ dec_cipher = None => result = Ok(data)

\* C2: with a cipher and a valid configuration, encode_data returns a signal
\* for every payload, and decode of that signal with the same cipher returns
\* the payload.
C2_RoundTripAead ==
    (pc \in {"encoded", "decoded"} /\ enc_cipher # None /\ ValidConfig(dosr))
    => /\ enc.ok
       /\ Transmitted /\ dec_cipher = enc_cipher => result = Ok(data)

\* C3: for bits_per_chunk in {1, 2, 4, 8} and every byte sequence, regrouping
\* the symbols of bytes_to_chunks into bytes yields the byte sequence.
C3_BitPackingRoundTrip ==
    (pc = "called" /\ call.op = "regroup" /\ dosr.bits_per_chunk \in {1, 2, 4, 8})
    => result = Ok(data)

\* C4: for every modem the constructor builds, every chunk index c below
\* chunks_per_frame and every value v below values_per_chunk,
\* decode_frequency(calculate_frequency(v, c), c) is v.
C4_FrequencyPlanBijection ==
    (pc = "called" /\ call.op = "frequency"
        /\ call.chunk_index < dosr.chunks_per_frame
        /\ call.value < dosr.values_per_chunk)
    => result = Ok(call.value)

\* C5: no modem with an invalid configuration (bits_per_chunk not dividing 8,
\* or a tone not strictly below sample_rate / 2) is ever built.
C5_NoInvalidModem == pc # "start" => ValidConfig(dosr)

\* C6: when decode is called with a cipher and authentication of the decoded
\* payload fails, decode returns an error value to its caller (it neither
\* returns bytes nor panics).
C6_AuthFailedSurfaced ==
    (pc = "decoded" /\ dec_cipher # None /\ enc.ok
        /\ (dec_cipher # enc_cipher \/ samples # enc.val))
    => ~result.ok /\ result.err # "" /\ result.panic = ""

\* C7: encode_data returns exactly F * samples_per_frame samples, F the
\* number of frames ceil(ceil(8 |payload| / bits_per_chunk) / chunks_per_frame).
C7_SampleCount ==
    (pc = "encoded" /\ enc_cipher = None /\ ValidConfig(dosr))
    => enc.ok /\ SampleCount(samples) = ExpectedSamples(dosr, Len(data))

\* C8: during encode_data with a valid configuration, every call of
\* calculate_frequency has value < values_per_chunk and chunk_index <
\* chunks_per_frame, and the assertions of calculate_frequency do not fire.
C8_AssertionsNeverFire ==
    (pc = "encoded" /\ ValidConfig(dosr))
    => /\ \A k \in 1..Len(calls) : /\ calls[k][1] < dosr.values_per_chunk
                                   /\ calls[k][2] < dosr.chunks_per_frame
       /\ enc.panic \notin {"Value exceeds maximum", "Chunk index out of bounds"}

\* C9: decode without a cipher of one frame of samples_per_frame zero
\* samples returns the empty byte sequence: the frame yields no frequencies,
\* and nothing panics.
C9_SilentInput ==
    (pc = "decoded" /\ Silent /\ dec_cipher = None)
    => /\ result = Ok(<<>>)
       /\ \A skew \in Skews : detect_frequencies(dosr, samples[1], skew) = Ok(<<>>)

\* decode has returned from a silent frame
C9_SilentDecoded == pc = "decoded" /\ Silent /\ dec_cipher = None /\ result.ok

\* C10, as stated: in scenario S1 the byte 0x41 gives the symbols [4, 1] in
\* one frame on chunks 0 and 1, with tones 2062.5 Hz and 2953.125 Hz.
C10_ScenarioS1_AsStated ==
    S1 => /\ calls = << <<4, 0>>, <<1, 1>> >>
          /\ Len(samples) = 1
          /\ samples[1].tones = <<2062500, 2953125>>

\* C10, as the code has it: in scenario S1 the byte 0x41 gives the symbols
\* [4, 1] in one frame on chunks 0 and 1, with tones
\* calculate_frequency(4, 0) = 2062.5 Hz and calculate_frequency(1, 1) =
\* 1875 + (1 + 16) * 46.875 = 2671.875 Hz.
C10_ScenarioS1 ==
    S1 => /\ enc.ok
          /\ bytes_to_chunks(dosr, data) = <<4, 1>>
          /\ calls = << <<4, 0>>, <<1, 1>> >>
          /\ Len(samples) = 1
          /\ samples[1].tones = <<2062500, 2671875>>

\* scenario S1 has run
C10_S1Encoded == S1 /\ enc.ok

\* C11: every sample of the signal encode_data returns is at most
\* 0.5 * chunks_per_frame in magnitude: a frame sums at most
\* chunks_per_frame waves, each at most 0.5 in magnitude.
C11_AmplitudeBound ==
    (pc = "encoded" /\ enc.ok)
    => \A k \in 1..Len(samples) :
        /\ Len(samples[k].tones) <= dosr.chunks_per_frame
        /\ FramePeak(samples[k]) <= Amplitude * dosr.chunks_per_frame

\* encode_data has returned a signal with a frame of chunks_per_frame > 1
\* tones, where the bound can be attained
C11_FullFrameEncoded ==
    /\ pc = "encoded" /\ enc.ok
    /\ dosr.chunks_per_frame > 1
    /\ \E k \in 1..Len(samples) : FramePeak(samples[k]) = Amplitude * dosr.chunks_per_frame

\* C12, as stated: two modems of equal configuration return identical
\* sample sequences from encode_data for the same payload and the same
\* cipher argument.
C12_Determinism_AsStated == pc = "encoded twice" => twin.out = enc

\* C12, as the code has it: the two modems return identical sample
\* sequences (or both panic alike) for the same payload when there is no
\* cipher, and with a cipher when OsRng gives both calls the same nonce;
\* with different nonces the sequences returned differ.
C12_Determinism ==
    pc = "encoded twice"
    => /\ twin.nonce = enc_nonce => twin.out = enc
       /\ twin.nonce # enc_nonce /\ enc.ok => twin.out # enc

\* both modems have returned a signal, without a cipher
C12_TwiceNoCipher ==
    pc = "encoded twice" /\ enc_cipher = None /\ enc.ok /\ twin.out.ok /\ data # <<>>

\* C13: for every modem the constructor builds, every value below
\* values_per_chunk and chunk index below chunks_per_frame,
\* calculate_frequency returns base_freq + (value + values_per_chunk *
\* chunk_index) * delta_freq over the unbounded integers: the u8
\* intermediate neither truncates nor overflows.
C13_ExactFrequency ==
    (pc = "called" /\ call.op = "frequency"
        /\ call.value < dosr.values_per_chunk
        /\ call.chunk_index < dosr.chunks_per_frame)
    => call.freq = Ok(dosr.base_freq
                      + (call.value + dosr.values_per_chunk * call.chunk_index) * dosr.delta_freq)

\* the bins strictly inside a vector of magnitudes that pass the peak test
InteriorPeaks(m) ==
    {i \in 1..(Len(m) - 2) :
        m[i + 1] > Threshold /\ m[i + 1] > m[i] /\ m[i + 1] > m[i + 2]}

\* C14: for every vector of normalized magnitudes the peak detector skips
\* bin 0 and the last bin: it returns, without reading index -1 or index
\* N/2, the frequencies of the bins with two neighbours that pass the peak
\* test, in ascending bin order.
C14_BoundaryBinsSkipped ==
    (pc = "called" /\ call.op = "detect")
    => result = Ok([k \in 1..Cardinality(InteriorPeaks(call.magnitudes)) |->
                      Ascending(InteriorPeaks(call.magnitudes))[k]
                          * BinWidth(dosr, 2 * Len(call.magnitudes))])

\* round((freq - base_freq) / delta_freq) - values_per_chunk * k over the
\* unbounded integers, for the frequency and the position of the call
DecodedValue ==
    (call.freq.val - dosr.base_freq) \div dosr.delta_freq
        - dosr.values_per_chunk * call.decoded_at

\* C15: when a detected frequency decodes to a value outside
\* [0, values_per_chunk) for its position, the symbol is clamped to 0 or a
\* decode error is returned: no wrapped or truncated value, no arithmetic
\* fault.
C15_OutOfRangeSymbol ==
    (pc = "called" /\ call.op = "decode"
        /\ (DecodedValue < 0 \/ DecodedValue >= dosr.values_per_chunk))
    => \/ result = Ok(0)
       \/ ~result.ok /\ result.err # "" /\ result.panic = ""

RECURSIVE HighFirst(_, _)
\* the byte of a group of symbols of `bits` bits, the first symbol in the high bits
HighFirst(group, bits) ==
    IF group = <<>> THEN 0
    ELSE HighFirst(SubSeq(group, 1, Len(group) - 1), bits) * Pow2(bits) + group[Len(group)]

\* the bytes of the complete groups of `size` symbols, a trailing incomplete
\* group left out
CompleteGroups(symbols, size, bits) ==
    [k \in 1..(Len(symbols) \div size) |->
        HighFirst(SubSeq(symbols, (k - 1) * size + 1, k * size), bits)]

\* C16: decode combines the symbols in groups of 8 / bits_per_chunk into
\* bytes, the first symbol of a group in the high bits, and discards a
\* trailing incomplete group: the payload has floor(symbols / (8 /
\* bits_per_chunk)) bytes.
C16_IncompleteGroupDiscarded ==
    (pc = "called" /\ call.op = "group" /\ dosr.bits_per_chunk \in {1, 2, 4, 8})
    => result = Ok(CompleteGroups(call.symbols, 8 \div dosr.bits_per_chunk, dosr.bits_per_chunk))

====
